---- MODULE Spec2Model ----
(***************************************************************************)
(* State-machine model of the geospatial_coco notebooks:                   *)
(*   - map_labels_to_integers and chunk_raster (the labels -> COCO         *)
(*     notebook), run in notebook order: labels first, then tiling;        *)
(*   - the crop-extraction loop (the per-polygon crop notebook).           *)
(*   - TreeDataset and the freeze and training loop of the classifier      *)
(*     notebook; tensors are abstract values, torch's backward, step and   *)
(*     zero_grad are kept by what they do to .data and .grad.              *)
(*                                                                         *)
(* Python and JSON scalars are kept with their type, because Python's 0    *)
(* and "0" are different values and so are JSON's: a scalar is a record    *)
(* [type, text], text being the value as json.dump prints it (without the  *)
(* quotes of a string).                                                    *)
(*                                                                         *)
(* Geometry: polygons are axis-aligned rectangles with integer corner      *)
(* coordinates in CRS units, rasters are north-up with their lower-left    *)
(* corner at the CRS origin and a whole number of CRS units per pixel.     *)
(* Areas, clipping and rowcol are then exact in integer arithmetic.        *)
(***************************************************************************)
EXTENDS Integers, Sequences, FiniteSets, TLC

(* ------------------------------ bounds -------------------------------- *)

\* Number of (geotiff, shapefile) pairs handed to the functions.
NumFiles == 2

\* Largest number of rows of a shapefile map_labels_to_integers is run on by
\* itself.
MaxRows == 2

\* Largest number of batches of a dataloader of the classifier notebook.
MaxBatches == 2

(* ------------------------- typed scalar values ------------------------ *)

PyStr(s) == [type |-> "str", text |-> s]

PyInt(n) == [type |-> "int", text |-> ToString(n)]

\* pandas' missing value: what Series.map gives for a key the dict lacks.
NaN == [type |-> "float", text |-> "NaN"]

\* The value of rows of a shapefile that has no 'class' column.
NoColumn == [type |-> "missing", text |-> ""]

(* ------------------------------ inputs -------------------------------- *)

\* A polygon: the rectangle [minx, maxx] x [miny, maxy] in CRS units.
Rect(minx, miny, maxx, maxy) == [minx |-> minx, miny |-> miny, maxx |-> maxx, maxy |-> maxy]

\* A large crown, well inside a tile of the rasters below.
BigCrown == Rect(100, 600, 300, 900)

\* A crown of area 1.0, entirely inside a tile.
SmallCrown == Rect(500, 700, 501, 701)

\* A crown of area exactly 2.0, entirely inside a tile.
TwoCrown == Rect(500, 698, 502, 699)

\* A crown across x = 1024, the right edge of the single-tile raster: area
\* 1.0 left of it, 76.0 right of it.
EdgeCrown == Rect(1023, 800, 1100, 801)

\* A crown across y = 2248, the line between the two tile rows of the
\* two-row raster: area 10.0 below it, 520.0 above it.
CrossCrown == Rect(500, 2247, 510, 2300)

Row(label, geometry) == [Label |-> PyStr(label), geometry |-> geometry, class |-> NoColumn]

SeqsUpTo(S, n) == UNION { [1..m -> S] : m \in 0..n }

\* The shapefiles the tiling and the crop extraction are run on: string
\* labels, polygon geometry, and no 'class' column yet.
ShapefileSet ==
    { <<Row("Acer", BigCrown), Row("Betula", SmallCrown)>>,
      <<Row("Betula", EdgeCrown), Row("Picea", TwoCrown), Row("Acer", CrossCrown),
        Row("Picea", SmallCrown)>>,
      <<>> }

\* The shapefiles map_labels_to_integers is run on by itself: every sequence
\* of labels up to MaxRows long.
LabelShapefileSet ==
    SeqsUpTo({ Row("Acer", BigCrown), Row("Betula", BigCrown), Row("Picea", BigCrown) }, MaxRows)

\* The rasters a geotiff path may hold: size in pixels, band count, and the
\* CRS units per pixel of its transform. In tiles (columns x rows): 1 x 1;
\* 1 x 2 with a strip left over on the right and below; 2 x 1 with a strip
\* left over on the right and below; none.
GeotiffSet ==
    { [width |-> 1024, height |-> 1024, count |-> 3, res |-> 1],
      [width |-> 1500, height |-> 2148, count |-> 4, res |-> 2],
      [width |-> 2100, height |-> 1200, count |-> 3, res |-> 2],
      [width |-> 1000, height |-> 1024, count |-> 3, res |-> 1] }

NoFile == [exists |-> FALSE]

(* ------------------------------- state -------------------------------- *)

VARIABLES
    pc,                 \* the statement the labels -> COCO notebook is at
    shapefiles,         \* the .gpkg files on disk, by path index
    \* map_labels_to_integers
    label_to_int_map, int_to_label_map, next_int,
    path_idx,           \* position of `for path in shapefile_paths`
    classes_json,       \* data/classes.json
    \* chunk_raster
    tile_id, annotation_id, class_map, coco_dict,
    pair_idx,           \* position of `for file, shapes in zip(...)`
    gdf, tif,           \* the shapefile read and the raster opened for the pair
    j, i,               \* the Python loop variables
    range_i,            \* the next value of `range(n_tiles_x)`
    window, raster,     \* the last window read and what was read
    tile_files,         \* the GeoTIFF tiles under data/chunked/{name}/
    coco_json,          \* data/chunked/{name}.json
    \* the crop-extraction loop
    crop_pc,            \* "running", or "raised" once an exception got out
    zone_idx,           \* position of `for file, shapes in zip(...)`: zone Z<zone_idx>
    shape_j,            \* position of `for j, shape in gdf.iterrows()`
    crop_class_map,     \* class_map: the crops written so far, per class
    crop_dirs,          \* the class directories under output_path
    crop_files,         \* the crops on disk: file path -> the polygon cropped
    printed,            \* the "error masking shape" lines printed
    \* the classifier notebook: the model, the optimizer and the training loop
    train_pc,           \* the statement the classifier notebook is at
    pretrained,         \* the tensors from_pretrained left in the model: name -> value
    parameters,         \* model.named_parameters(): name -> data, requires_grad, grad
    optimizer_state,    \* optimizer.state[p]['step'], for the parameters that have one
    set_to_none,        \* what zero_grad() leaves in .grad: None, or zeros (older torch)
    train_batches,      \* len(train_dataloader)
    val_batches,        \* len(val_dataloader)
    epoch,              \* position of `for epoch in range(epochs)`
    idx,                \* batches of the running dataloader loop already taken
    \* TreeDataset
    dataset_pc,         \* "none", "built" once __init__ returned, "raised"
    dataset_class_map,  \* self.class_map
    image_files         \* self.image_files, as the set of its (path, target) items

labelVars == <<label_to_int_map, int_to_label_map, next_int, path_idx, classes_json>>

chunkVars == <<tile_id, annotation_id, class_map, coco_dict, pair_idx, gdf, tif,
               j, i, range_i, window, raster, tile_files, coco_json>>

cropVars == <<crop_pc, zone_idx, shape_j, crop_class_map, crop_dirs, crop_files, printed>>

trainVars == <<train_pc, pretrained, parameters, optimizer_state, set_to_none,
               train_batches, val_batches, epoch, idx>>

datasetVars == <<dataset_pc, dataset_class_map, image_files>>

vars == <<pc, shapefiles, labelVars, chunkVars, cropVars, trainVars, datasetVars>>

(* --------------------------- Python dicts ----------------------------- *)

\* A dict is the sequence of its items [k, v] in insertion order, which is
\* the order .items() and json.dump go through them.
EmptyDict == <<>>

DictKeys(d) == { d[n].k : n \in 1..Len(d) }

DictGet(d, key) == d[CHOOSE n \in 1..Len(d) : d[n].k = key].v

\* d[key] = v: a new key goes last, a known key keeps its place.
DictSet(d, key, v) ==
    IF key \in DictKeys(d)
    THEN [n \in 1..Len(d) |-> IF d[n].k = key THEN [k |-> key, v |-> v] ELSE d[n]]
    ELSE Append(d, [k |-> key, v |-> v])

\* json.dump of a dict: a key that is not a string is written as the string
\* of its text (the int 0 becomes the key "0"); values keep their type.
JsonDumpDict(d) == [n \in 1..Len(d) |-> [k |-> PyStr(d[n].k.text), v |-> d[n].v]]

\* json.load of an object: every key is a Python str.
JsonLoadDict(doc) == doc

(* ----------------------- map_labels_to_integers ----------------------- *)

Column(rows, name) == [n \in 1..Len(rows) |-> rows[n][name]]

\* The loop without `next_int += 1`.
RECURSIVE AssignLabelsNoStep(_, _)
AssignLabelsNoStep(labels, st) ==
    IF labels = <<>> THEN st
    ELSE LET label == Head(labels)
             st1 == IF label \notin DictKeys(st.label_to_int_map)
                    THEN [label_to_int_map |->
                              DictSet(st.label_to_int_map, label, PyInt(st.next_int)),
                          int_to_label_map |->
                              DictSet(st.int_to_label_map, PyInt(st.next_int), label),
                          next_int |-> st.next_int]
                    ELSE st
         IN  AssignLabelsNoStep(Tail(labels), st1)

\* `for label in gdf['Label']`: a label seen for the first time takes next_int.
RECURSIVE AssignLabels(_, _)
AssignLabels(labels, st) ==
    IF labels = <<>> THEN st
    ELSE LET label == Head(labels)
             st1 == IF label \notin DictKeys(st.label_to_int_map)
                    THEN [label_to_int_map |->
                              DictSet(st.label_to_int_map, label, PyInt(st.next_int)),
                          int_to_label_map |->
                              DictSet(st.int_to_label_map, PyInt(st.next_int), label),
                          next_int |-> st.next_int + 1]
                    ELSE st
         IN  AssignLabels(Tail(labels), st1)

\* Series.map(dict): a value the dict lacks maps to NaN, and a column with a
\* NaN in it is a float column.
SeriesMap(series, d) ==
    IF \A n \in 1..Len(series) : series[n] \in DictKeys(d)
    THEN [n \in 1..Len(series) |-> DictGet(d, series[n])]
    ELSE [n \in 1..Len(series) |->
              IF series[n] \in DictKeys(d)
              THEN [type |-> "float", text |-> DictGet(d, series[n]).text \o ".0"]
              ELSE NaN]

\* gdf['class'] = gdf['Label'].map(d): a new column; 'Label' is left as it is.
SetClassColumn(rows, d) ==
    LET mapped == SeriesMap(Column(rows, "Label"), d)
    IN  [n \in 1..Len(rows) |-> [rows[n] EXCEPT !.class = mapped[n]]]

\* One pass of `for path in shapefile_paths`: read, extend the maps, add the
\* 'class' column, save to the same path.
MapShapefile ==
    /\ pc = "map_labels"
    /\ path_idx <= NumFiles
    /\ LET rows == shapefiles[path_idx]
           st   == AssignLabels(Column(rows, "Label"),
                                [label_to_int_map |-> label_to_int_map,
                                 int_to_label_map |-> int_to_label_map,
                                 next_int |-> next_int])
       IN  /\ label_to_int_map' = st.label_to_int_map
           /\ int_to_label_map' = st.int_to_label_map
           /\ next_int' = st.next_int
           /\ shapefiles' = [shapefiles EXCEPT
                                ![path_idx] = SetClassColumn(rows, st.label_to_int_map)]
    /\ path_idx' = path_idx + 1
    /\ UNCHANGED <<pc, classes_json, chunkVars, cropVars, trainVars, datasetVars>>

\* The other map dumped: label -> integer.
DumpedLabelMap == label_to_int_map

\* What json.dump is given.
DumpedMap == int_to_label_map

\* After the loop: the map is written to output_json_path and the function returns.
MapDump ==
    /\ pc = "map_labels"
    /\ path_idx > NumFiles
    /\ classes_json' = [exists |-> TRUE, data |-> JsonDumpDict(DumpedMap)]
    /\ pc' = "chunk_raster"
    /\ UNCHANGED <<shapefiles, label_to_int_map, int_to_label_map, next_int, path_idx,
                   chunkVars, cropVars, trainVars, datasetVars>>

(* ---------------------------- chunk_raster ---------------------------- *)

tile_width == 1024

tile_height == 1024

\* The columns of tiles counted with the strip left over as one more.
n_tiles_x_ceil(t) == (t.width + tile_width - 1) \div tile_width

n_tiles_x(t) == t.width \div tile_width

n_tiles_y(t) == t.height \div tile_height

\* rasterio.windows.Window(col_off, row_off, width, height)
Window(col_off, row_off, width, height) ==
    [col_off |-> col_off, row_off |-> row_off, width |-> width, height |-> height]

\* What tif.read(window=...) may return, summarised by how many zeros its
\* pixels hold: `black` pixels are zero in every band, `some` pixels are zero
\* in exactly `zero_bands` bands (0 < zero_bands < count), the others in none.
Pixels(black, some, zero_bands) == [black |-> black, some |-> some, zero_bands |-> zero_bands]

TilePixels == tile_width * tile_height

RasterSet(count) ==
    { Pixels(0, 0, 1),                          \* no zero anywhere
      Pixels(TilePixels, 0, 1),                 \* all black
      Pixels(TilePixels \div 2, 0, 1),          \* exactly half black
      Pixels(TilePixels \div 2 + 1, 0, 1),      \* one pixel over half black
      Pixels(0, TilePixels, count - 1),         \* no black pixel, one band non-zero
      Pixels(0, TilePixels, 1) }                \* no black pixel, one band zero

\* np.sum(raster == 0): the zero values over all bands.
ZeroCount(data, count) == data.black * count + data.some * data.zero_bands

\* The test with >= for >: a tile that is exactly half zeros is dropped too.
MostlyZeroOrHalf(data, count) == 2 * ZeroCount(data, count) >= tile_width * tile_height * count

\* np.sum(raster == 0) / (tile_width * tile_height * tif.count) > 0.5
\* (the quotient of two integers below 2^53 exceeds 0.5 exactly when twice the
\* numerator exceeds the denominator).
MostlyZero(data, count) == 2 * ZeroCount(data, count) > tile_width * tile_height * count

\* tif.window_transform(window) of a north-up raster whose lower-left corner
\* is the CRS origin: the CRS position of the window's top-left corner, and
\* the pixel size.
WindowTransform(t, win) ==
    [ox |-> win.col_off * t.res, oy |-> (t.height - win.row_off) * t.res, res |-> t.res]

\* tile_raster.bounds, as box(*bounds) takes them: (left, bottom, right, top).
TileBox(tr) == Rect(tr.ox, tr.oy - tile_height * tr.res, tr.ox + tile_width * tr.res, tr.oy)

Max(a, b) == IF a >= b THEN a ELSE b

Min(a, b) == IF a <= b THEN a ELSE b

Abs(a) == IF a >= 0 THEN a ELSE -a

Intersection(p, q) ==
    Rect(Max(p.minx, q.minx), Max(p.miny, q.miny), Min(p.maxx, q.maxx), Min(p.maxy, q.maxy))

\* Whether a rectangle has an interior (that is, is a polygon).
IsPolygon(r) == r.minx < r.maxx /\ r.miny < r.maxy

Area(r) == (r.maxx - r.minx) * (r.maxy - r.miny)

\* gpd.overlay(gdf, bbox_polygon, how='intersection'): the rows whose polygon
\* meets the box in a polygon, in the order of gdf, each with the intersection
\* as its geometry; then the 'area' column.
Overlay(rows, bbox) ==
    LET clipped == [n \in 1..Len(rows) |->
                       [Label    |-> rows[n].Label,
                        class    |-> rows[n].class,
                        geometry |-> Intersection(rows[n].geometry, bbox),
                        area     |-> Area(Intersection(rows[n].geometry, bbox))]]
        Polygonal(row) == IsPolygon(row.geometry)
    IN  SelectSeq(clipped, Polygonal)

\* The filter with `> 2.0`.
AreaFilterStrict(rows) ==
    LET BigEnough(row) == row.area > 2
    IN  SelectSeq(rows, BigEnough)

\* intersecting_polygons[intersecting_polygons['area'] >= 2.0]
AreaFilter(rows) ==
    LET BigEnough(row) == row.area >= 2
    IN  SelectSeq(rows, BigEnough)

\* rio.transform.rowcol(transform, x, y): (row, col) of the pixel holding (x, y).
rowcol(tr, x, y) == [row |-> (tr.oy - y) \div tr.res, col |-> (x - tr.ox) \div tr.res]

\* geometry_mask(..., invert=True): the pixels whose centre is inside the
\* shape, as the half-open pixel rectangle they fill (coordinates doubled so
\* that pixel centres are whole numbers).
GeometryMask(shape, tr) ==
    LET FirstAtOrAfter(d) == (2 * d + tr.res - 1) \div (2 * tr.res)
        col0 == Max(0, FirstAtOrAfter(shape.minx - tr.ox))
        col1 == Min(tile_width, FirstAtOrAfter(shape.maxx - tr.ox))
        row0 == Max(0, FirstAtOrAfter(tr.oy - shape.maxy))
        row1 == Min(tile_height, FirstAtOrAfter(tr.oy - shape.miny))
    IN  [col0 |-> col0, row0 |-> row0, col1 |-> Max(col0, col1), row1 |-> Max(row0, row1)]

\* coco_mask.encode: the run-length encoding of the mask, kept as the mask.
Segmentation(mask) == [size |-> <<tile_height, tile_width>>, counts |-> mask]

\* The bbox of the annotation entry, from the bounds of the clipped shape.
BBox(shape, tr) ==
    LET lo == rowcol(tr, shape.minx, shape.miny)
        hi == rowcol(tr, shape.maxx, shape.maxy)
        minx == lo.col
        miny == lo.row
        maxx == hi.col
        maxy == hi.row
    IN  <<minx, miny, Abs(maxx - minx), Abs(maxy - miny)>>

\* An annotation entry numbered within its tile: the first of a tile has id 0.
AnnotationNumberedInTile(shp, id, image_id, tr) ==
    [id           |-> id - annotation_id,
     image_id     |-> image_id,
     category_id  |-> shp.class,
     segmentation |-> Segmentation(GeometryMask(shp.geometry, tr)),
     area         |-> shp.area,
     bbox         |-> BBox(shp.geometry, tr),
     iscrowd      |-> 0]

\* The annotation entry for the shape shp.
Annotation(shp, id, image_id, tr) ==
    [id           |-> id,
     image_id     |-> image_id,
     category_id  |-> shp.class,
     segmentation |-> Segmentation(GeometryMask(shp.geometry, tr)),
     area         |-> shp.area,
     bbox         |-> BBox(shp.geometry, tr),
     iscrowd      |-> 0]

\* The image entry of a tile.
Image(id, tile_name) ==
    [id            |-> id,
     width         |-> tile_width,
     height        |-> tile_height,
     gsd           |-> [type |-> "float", text |-> "0.0192"],
     file_name     |-> tile_name,
     date_captured |-> PyStr("2022-06-01")]

\* The categories list: one entry per item of the loaded class map.
Categories(cm) ==
    [n \in 1..Len(cm) |-> [id |-> cm[n].k, name |-> cm[n].v, supercategory |-> PyStr("tree")]]

EmptyCoco == [info |-> <<>>, licenses |-> <<>>, images |-> <<>>, annotations |-> <<>>,
              categories |-> <<>>]

\* The call: counters at 0, classes.json loaded, coco_dict built.
ChunkStart ==
    /\ pc = "chunk_raster"
    /\ tile_id' = 0
    /\ annotation_id' = 0
    /\ class_map' = JsonLoadDict(classes_json.data)
    /\ coco_dict' = [EmptyCoco EXCEPT !.categories = Categories(JsonLoadDict(classes_json.data))]
    /\ pair_idx' = 1
    /\ pc' = "chunk_open"
    /\ UNCHANGED <<shapefiles, labelVars, gdf, tif, j, i, range_i, window, raster,
                   tile_files, coco_json, cropVars, trainVars, datasetVars>>

\* The loop head with the tile counter set back to 0 for every geotiff.
ChunkOpenResetsCounter ==
    /\ pc = "chunk_open"
    /\ pair_idx <= NumFiles
    /\ gdf' = shapefiles[pair_idx]
    /\ \E t \in GeotiffSet : tif' = t
    /\ j' = 0
    /\ range_i' = 0
    /\ tile_id' = 0
    /\ pc' = "chunk_tiles"
    /\ UNCHANGED <<shapefiles, labelVars, annotation_id, class_map, coco_dict,
                   pair_idx, i, window, raster, tile_files, coco_json, cropVars, trainVars, datasetVars>>

\* `for file, shapes in zip(...)`: the shapefile is read and the raster opened.
ChunkOpen ==
    /\ pc = "chunk_open"
    /\ pair_idx <= NumFiles
    /\ gdf' = shapefiles[pair_idx]
    /\ \E t \in GeotiffSet : tif' = t
    /\ j' = 0
    /\ range_i' = 0
    /\ pc' = "chunk_tiles"
    /\ UNCHANGED <<shapefiles, labelVars, tile_id, annotation_id, class_map, coco_dict,
                   pair_idx, i, window, raster, tile_files, coco_json, cropVars, trainVars, datasetVars>>

\* gpd.read_file or rio.open raises: the call ends there.
ChunkOpenRaise ==
    /\ pc = "chunk_open"
    /\ pair_idx <= NumFiles
    /\ pc' = "raised"
    /\ UNCHANGED <<shapefiles, labelVars, chunkVars, cropVars, trainVars, datasetVars>>

\* uuid.uuid4(): a name no other tile has; the model names it after the tile.
TileName(pair, row, col) == <<pair, row, col>>

\* The shapes of the open tile that get an annotation.
TileShapes(tr) == AreaFilter(Overlay(gdf, TileBox(tr)))

\* The tile body with the zero check after `tile_id += 1`: a dropped tile
\* takes a tile id.
ChunkTileDroppedCounted ==
    /\ pc = "chunk_tiles"
    /\ j < n_tiles_y(tif)
    /\ range_i < n_tiles_x(tif)
    /\ \E data \in RasterSet(tif.count) :
         LET win_x == range_i * tile_width
             win_y == j * tile_height
             win == Window(win_x, win_y, tile_width, tile_height)
             window_transform == WindowTransform(tif, win)
             tile_name == TileName(pair_idx, j, range_i)
             intersecting_polygons == TileShapes(window_transform)
             tile_annotations ==
                 [n \in 1..Len(intersecting_polygons) |->
                     Annotation(intersecting_polygons[n], annotation_id + n - 1, tile_id,
                                window_transform)]
         IN  /\ window' = win
             /\ raster' = data
             /\ IF MostlyZero(data, tif.count)
                THEN /\ i' = range_i
                     /\ tile_id' = tile_id + 1
                     /\ UNCHANGED <<tile_files, coco_dict, annotation_id>>
                ELSE /\ tile_files' = tile_files \cup {tile_name}
                     /\ coco_dict' = [coco_dict EXCEPT
                                        !.images = Append(@, Image(tile_id, tile_name)),
                                        !.annotations = @ \o tile_annotations]
                     /\ annotation_id' = annotation_id + Len(intersecting_polygons)
                     /\ tile_id' = tile_id + 1
                     \* `for i, shp in intersecting_polygons.iterrows()` rebinds i
                     /\ i' = IF intersecting_polygons = <<>> THEN range_i
                             ELSE Len(intersecting_polygons) - 1
    /\ range_i' = range_i + 1
    /\ UNCHANGED <<pc, shapefiles, labelVars, class_map, pair_idx, gdf, tif, j, coco_json, cropVars, trainVars, datasetVars>>

\* The body of `for i in range(n_tiles_x)` for one tile, to its end.
ChunkTile ==
    /\ pc = "chunk_tiles"
    /\ j < n_tiles_y(tif)
    /\ range_i < n_tiles_x(tif)
    /\ \E data \in RasterSet(tif.count) :
         LET win_x == range_i * tile_width
             win_y == j * tile_height
             win == Window(win_x, win_y, tile_width, tile_height)
             window_transform == WindowTransform(tif, win)
             tile_name == TileName(pair_idx, j, range_i)
             intersecting_polygons == TileShapes(window_transform)
             tile_annotations ==
                 [n \in 1..Len(intersecting_polygons) |->
                     Annotation(intersecting_polygons[n], annotation_id + n - 1, tile_id,
                                window_transform)]
         IN  /\ window' = win
             /\ raster' = data
             /\ IF MostlyZero(data, tif.count)
                THEN /\ i' = range_i
                     /\ UNCHANGED <<tile_files, coco_dict, annotation_id, tile_id>>
                ELSE /\ tile_files' = tile_files \cup {tile_name}
                     /\ coco_dict' = [coco_dict EXCEPT
                                        !.images = Append(@, Image(tile_id, tile_name)),
                                        !.annotations = @ \o tile_annotations]
                     /\ annotation_id' = annotation_id + Len(intersecting_polygons)
                     /\ tile_id' = tile_id + 1
                     \* `for i, shp in intersecting_polygons.iterrows()` rebinds i
                     /\ i' = IF intersecting_polygons = <<>> THEN range_i
                             ELSE Len(intersecting_polygons) - 1
    /\ range_i' = range_i + 1
    /\ UNCHANGED <<pc, shapefiles, labelVars, class_map, pair_idx, gdf, tif, j, coco_json, cropVars, trainVars, datasetVars>>

\* An exception inside the `with ... as tile_raster` block of a kept tile
\* (overlay, geometry_mask, a missing column): the tile is on disk and its
\* image entry appended, `done` shapes have taken an annotation id, and
\* tile_annotations is lost with the call.
ChunkTileRaise ==
    /\ pc = "chunk_tiles"
    /\ j < n_tiles_y(tif)
    /\ range_i < n_tiles_x(tif)
    /\ \E data \in RasterSet(tif.count) :
         LET win == Window(range_i * tile_width, j * tile_height, tile_width, tile_height)
             tile_name == TileName(pair_idx, j, range_i)
         IN  /\ ~MostlyZero(data, tif.count)
             /\ window' = win
             /\ raster' = data
             /\ tile_files' = tile_files \cup {tile_name}
             /\ coco_dict' = [coco_dict EXCEPT !.images = Append(@, Image(tile_id, tile_name))]
             /\ \E done \in 0..Len(TileShapes(WindowTransform(tif, win))) :
                    annotation_id' = annotation_id + done
    /\ i' = range_i
    /\ range_i' = range_i + 1
    /\ pc' = "raised"
    /\ UNCHANGED <<shapefiles, labelVars, tile_id, class_map, pair_idx, gdf, tif, j, coco_json, cropVars, trainVars, datasetVars>>

\* `for j in range(n_tiles_y)`: the row is finished, the next one starts.
ChunkNextRow ==
    /\ pc = "chunk_tiles"
    /\ j < n_tiles_y(tif)
    /\ range_i = n_tiles_x(tif)
    /\ j' = j + 1
    /\ range_i' = 0
    /\ UNCHANGED <<pc, shapefiles, labelVars, tile_id, annotation_id, class_map, coco_dict,
                   pair_idx, gdf, tif, i, window, raster, tile_files, coco_json, cropVars, trainVars, datasetVars>>

\* What the JSON file holds once coco_dict is dumped: every key of coco_dict
\* is a str and every value carries its JSON type, so the document is the dict.
JsonDumpCoco(d) == [exists |-> TRUE, data |-> d]

\* The dump moved out of the loop: the file is written after the last pair only.
ChunkWriteJsonAtEnd ==
    /\ pc = "chunk_tiles"
    /\ j = n_tiles_y(tif)
    /\ coco_json' = IF pair_idx + 1 > NumFiles THEN JsonDumpCoco(coco_dict) ELSE coco_json
    /\ pair_idx' = pair_idx + 1
    /\ pc' = IF pair_idx + 1 > NumFiles THEN "done" ELSE "chunk_open"
    /\ UNCHANGED <<shapefiles, labelVars, tile_id, annotation_id, class_map, coco_dict,
                   gdf, tif, j, i, range_i, window, raster, tile_files, cropVars, trainVars, datasetVars>>

\* "Write JSON after every file": the rows are done, the file is rewritten
\* from coco_dict and the loop goes to the next pair.
ChunkWriteJson ==
    /\ pc = "chunk_tiles"
    /\ j = n_tiles_y(tif)
    /\ coco_json' = JsonDumpCoco(coco_dict)
    /\ pair_idx' = pair_idx + 1
    /\ pc' = IF pair_idx + 1 > NumFiles THEN "done" ELSE "chunk_open"
    /\ UNCHANGED <<shapefiles, labelVars, tile_id, annotation_id, class_map, coco_dict,
                   gdf, tif, j, i, range_i, window, raster, tile_files, cropVars, trainVars, datasetVars>>

(* ----------------------- the crop-extraction loop -------------------- *)

\* A file name without the counter: f"{zone}.tif"
CropPathUnnumbered(class_label, zone, n) == [dir |-> class_label, zone |-> zone, n |-> 1]

\* os.path.join(class_path, f"{zone}_{n}.tif")
CropPath(class_label, zone, n) == [dir |-> class_label, zone |-> zone, n |-> n]

\* The polygon the loop is at, named as the print names it.
Shape(zone, row) == [zone |-> zone, j |-> row]

\* mask(...) or the window read succeeded: the crop is written under its
\* class directory. A class directory that exists without an entry in
\* class_map makes `class_map[class_label] += 1` raise KeyError.
CropWritten ==
    /\ crop_pc = "running"
    /\ zone_idx <= NumFiles
    /\ shape_j < Len(shapefiles[zone_idx])
    /\ LET shape == shapefiles[zone_idx][shape_j + 1]
           class_label == shape.Label
       IN  IF class_label \notin crop_dirs
           THEN /\ crop_dirs' = crop_dirs \cup {class_label}
                /\ crop_class_map' = DictSet(crop_class_map, class_label, 1)
                /\ crop_files' = DictSet(crop_files, CropPath(class_label, zone_idx, 1),
                                         Shape(zone_idx, shape_j))
                /\ shape_j' = shape_j + 1
                /\ UNCHANGED crop_pc
           ELSE IF class_label \in DictKeys(crop_class_map)
           THEN LET n == DictGet(crop_class_map, class_label) + 1
                IN  /\ crop_class_map' = DictSet(crop_class_map, class_label, n)
                    /\ crop_files' = DictSet(crop_files, CropPath(class_label, zone_idx, n),
                                             Shape(zone_idx, shape_j))
                    /\ shape_j' = shape_j + 1
                    /\ UNCHANGED <<crop_pc, crop_dirs>>
           ELSE /\ crop_pc' = "raised"
                /\ UNCHANGED <<crop_dirs, crop_class_map, crop_files, shape_j>>
    /\ UNCHANGED <<zone_idx, printed, pc, shapefiles, labelVars, chunkVars, trainVars, datasetVars>>

\* The loop body without the try/except: the exception ends the run.
CropMaskFailsRaises ==
    /\ crop_pc = "running"
    /\ zone_idx <= NumFiles
    /\ shape_j < Len(shapefiles[zone_idx])
    /\ printed' = Append(printed, Shape(zone_idx, shape_j))
    /\ crop_pc' = "raised"
    /\ UNCHANGED <<shape_j, zone_idx, crop_class_map, crop_dirs, crop_files,
                   pc, shapefiles, labelVars, chunkVars, trainVars, datasetVars>>

\* mask(...) or the window read raised: `except:` prints and continues.
CropMaskFails ==
    /\ crop_pc = "running"
    /\ zone_idx <= NumFiles
    /\ shape_j < Len(shapefiles[zone_idx])
    /\ printed' = Append(printed, Shape(zone_idx, shape_j))
    /\ shape_j' = shape_j + 1
    /\ UNCHANGED <<crop_pc, zone_idx, crop_class_map, crop_dirs, crop_files,
                   pc, shapefiles, labelVars, chunkVars, trainVars, datasetVars>>

\* The rows of the zone are done: the next (geotiff, shapefile) pair.
CropNextZone ==
    /\ crop_pc = "running"
    /\ zone_idx <= NumFiles
    /\ shape_j = Len(shapefiles[zone_idx])
    /\ zone_idx' = zone_idx + 1
    /\ shape_j' = 0
    /\ UNCHANGED <<crop_pc, crop_class_map, crop_dirs, crop_files, printed,
                   pc, shapefiles, labelVars, chunkVars, trainVars, datasetVars>>

(* ----------------------- the classifier notebook ---------------------- *)

\* The names model.named_parameters() yields, as (first component, rest):
\* two of the backbone (self.dinov2) and the two of self.classifier.
ParamNames ==
    { <<"dinov2", "embeddings.cls_token">>, <<"dinov2", "layernorm.weight">>,
      <<"classifier", "weight">>, <<"classifier", "bias">> }

\* The values a parameter tensor may hold.
ParamValues == 0..1

\* The values loss.backward() may leave in a .grad.
GradValues == -1..1

epochs == 10

\* name.startswith(prefix), for a prefix that is a first component.
startswith(name, prefix) == name[1] = prefix

\* .grad is None
NoGrad == [none |-> TRUE, v |-> 0]

Grad(v) == [none |-> FALSE, v |-> v]

\* A parameter as from_pretrained leaves it.
Parameter(data) == [data |-> data, requires_grad |-> TRUE, grad |-> NoGrad]

\* A loop that sets requires_grad = False on no parameter.
FreezesNothing(name) == FALSE

\* `if name.startswith("dinov2")`
Freezes(name) == startswith(name, "dinov2")

\* "freeze DINOv2 parameters": the loop over model.named_parameters().
Freeze ==
    /\ train_pc = "freeze"
    /\ parameters' = [name \in ParamNames |->
                         IF Freezes(name)
                         THEN [parameters[name] EXCEPT !.requires_grad = FALSE]
                         ELSE parameters[name]]
    /\ train_pc' = "optimizer"
    /\ UNCHANGED <<pretrained, optimizer_state, set_to_none, train_batches, val_batches,
                   epoch, idx, pc, shapefiles, labelVars, chunkVars, cropVars, datasetVars>>

\* The cell of the loop up to its first epoch: AdamW over model.parameters()
\* (all of them, frozen or not), with no state yet for any parameter.
TrainStart ==
    /\ train_pc = "optimizer"
    /\ optimizer_state' = [name \in ParamNames |-> 0]
    /\ epoch' = 0
    /\ idx' = 0
    /\ train_pc' = "train"
    /\ UNCHANGED <<pretrained, parameters, set_to_none, train_batches, val_batches,
                   pc, shapefiles, labelVars, chunkVars, cropVars, datasetVars>>

\* loss.backward(): a parameter that requires grad gets a gradient, added to
\* the one it holds; the others keep .grad as it is.
Backward(params, g) ==
    [name \in ParamNames |->
        IF params[name].requires_grad
        THEN [params[name] EXCEPT !.grad = IF @.none THEN Grad(g) ELSE Grad(@.v + g)]
        ELSE params[name]]

\* optimizer.zero_grad(): a .grad that is None stays None; the others become
\* None, or zeros where set_to_none is off.
ZeroGrad(params) ==
    [name \in ParamNames |->
        IF params[name].grad.none \/ set_to_none
        THEN [params[name] EXCEPT !.grad = NoGrad]
        ELSE [params[name] EXCEPT !.grad = Grad(0)]]

\* The tensors optimizer.step() may leave: AdamW skips a parameter whose
\* .grad is None (`if p.grad is None: continue`) and updates the others.
Stepped(params) ==
    { [name \in ParamNames |-> [params[name] EXCEPT !.data = data[name]]] :
        data \in { d \in [ParamNames -> ParamValues] :
                     \A name \in ParamNames :
                         params[name].grad.none => d[name] = params[name].data } }

\* One training batch: forward, loss.backward(), optimizer.step(),
\* optimizer.zero_grad().
TrainBatch ==
    /\ train_pc = "train"
    /\ idx < train_batches
    /\ \E g \in GradValues :
         LET after_backward == Backward(parameters, g)
         IN  /\ \E after_step \in Stepped(after_backward) :
                    parameters' = ZeroGrad(after_step)
             /\ optimizer_state' =
                    [name \in ParamNames |->
                        IF after_backward[name].grad.none
                        THEN optimizer_state[name]
                        ELSE optimizer_state[name] + 1]
    /\ idx' = idx + 1
    /\ UNCHANGED <<train_pc, pretrained, set_to_none, train_batches, val_batches, epoch,
                   pc, shapefiles, labelVars, chunkVars, cropVars, datasetVars>>

\* After the training batches: `train_loss /= len(train_dataloader)`, which
\* raises ZeroDivisionError for an empty dataloader.
TrainEpochEnd ==
    /\ train_pc = "train"
    /\ idx = train_batches
    /\ train_pc' = IF train_batches = 0 THEN "raised" ELSE "val"
    /\ idx' = IF train_batches = 0 THEN idx ELSE 0
    /\ UNCHANGED <<pretrained, parameters, optimizer_state, set_to_none, train_batches,
                   val_batches, epoch, pc, shapefiles, labelVars, chunkVars, cropVars, datasetVars>>

\* One validation batch: forward, loss, optimizer.zero_grad(); no backward
\* and no step.
ValBatch ==
    /\ train_pc = "val"
    /\ idx < val_batches
    /\ parameters' = ZeroGrad(parameters)
    /\ idx' = idx + 1
    /\ UNCHANGED <<train_pc, pretrained, optimizer_state, set_to_none, train_batches,
                   val_batches, epoch, pc, shapefiles, labelVars, chunkVars, cropVars, datasetVars>>

\* A batch raises before its loss is there (a crop that cannot be opened, a
\* target one_hot refuses): the cell ends.
BatchRaise ==
    /\ train_pc \in {"train", "val"}
    /\ idx < (IF train_pc = "train" THEN train_batches ELSE val_batches)
    /\ train_pc' = "raised"
    /\ UNCHANGED <<pretrained, parameters, optimizer_state, set_to_none, train_batches,
                   val_batches, epoch, idx, pc, shapefiles, labelVars, chunkVars, cropVars, datasetVars>>

\* After the validation batches: `val_loss /= len(val_dataloader)`, the
\* losses are appended and the next epoch starts.
ValEpochEnd ==
    /\ train_pc = "val"
    /\ idx = val_batches
    /\ IF val_batches = 0
       THEN /\ train_pc' = "raised"
            /\ UNCHANGED <<epoch, idx>>
       ELSE /\ epoch' = epoch + 1
            /\ idx' = 0
            /\ train_pc' = IF epoch + 1 < epochs THEN "train" ELSE "done"
    /\ UNCHANGED <<pretrained, parameters, optimizer_state, set_to_none, train_batches,
                   val_batches, pc, shapefiles, labelVars, chunkVars, cropVars, datasetVars>>

(* ----------------------------- TreeDataset ---------------------------- *)

\* The integers a key of classes.json is parsed as.
Numerals == 0..99

ValueError == [type |-> "ValueError", text |-> ""]

\* int(k) of a str: the int whose decimal numeral the string is.
int(k) ==
    IF \E n \in Numerals : ToString(n) = k.text
    THEN PyInt(CHOOSE n \in Numerals : ToString(n) = k.text)
    ELSE ValueError

\* {v: k for k, v in items}: the keys are left as the strings json.load gives.
RECURSIVE InvertClassMapNoInt(_, _)
InvertClassMapNoInt(items, acc) ==
    IF items = <<>> THEN acc
    ELSE InvertClassMapNoInt(Tail(items), DictSet(acc, Head(items).v, Head(items).k))

\* {v: int(k) for k, v in items}: a value met again takes the later key.
RECURSIVE InvertClassMap(_, _)
InvertClassMap(items, acc) ==
    IF items = <<>> THEN acc
    ELSE InvertClassMap(Tail(items), DictSet(acc, Head(items).v, int(Head(items).k)))

\* The crops on disk the loops of __init__ go through: os.listdir of every
\* class directory, kept when a zone of `zones` is in the file name.
ListedCrops(zones) ==
    { path \in DictKeys(crop_files) : path.dir \in crop_dirs /\ path.zone \in zones }

\* TreeDataset(root_dir, transform, zones): classes.json is read and
\* inverted, and every crop of the zones is listed with the integer of its
\* class directory. A missing classes.json, a key that is no numeral and a
\* class directory classes.json does not name all raise.
TreeDatasetInit ==
    /\ dataset_pc = "none"
    /\ \E zones \in (SUBSET (1..NumFiles)) \ {{}} :
         IF ~classes_json.exists
         THEN /\ dataset_pc' = "raised"
              /\ UNCHANGED <<dataset_class_map, image_files>>
         ELSE LET loaded == JsonLoadDict(classes_json.data)
                  inverted == InvertClassMap(loaded, EmptyDict)
              IN  IF \E n \in 1..Len(loaded) : int(loaded[n].k) = ValueError
                  THEN /\ dataset_pc' = "raised"
                       /\ UNCHANGED <<dataset_class_map, image_files>>
                  ELSE /\ dataset_class_map' = inverted
                       /\ IF \A path \in ListedCrops(zones) : path.dir \in DictKeys(inverted)
                          THEN /\ image_files' =
                                     { [path |-> path, c |-> DictGet(inverted, path.dir)] :
                                           path \in ListedCrops(zones) }
                               /\ dataset_pc' = "built"
                          ELSE /\ dataset_pc' = "raised"
                               /\ UNCHANGED image_files
    /\ UNCHANGED <<pc, shapefiles, labelVars, chunkVars, cropVars, trainVars>>

\* __getitem__: the target returned for an item of image_files.
getitem(item) == item.c

(* ------------------------------ the runs ------------------------------ *)

NoWindow == Window(0, 0, 0, 0)

\* Before the labels -> COCO notebook runs.
InitLabelsToCoco ==
    /\ pc = "map_labels"
    /\ label_to_int_map = EmptyDict
    /\ int_to_label_map = EmptyDict
    /\ next_int = 0
    /\ path_idx = 1
    /\ classes_json = NoFile
    /\ tile_id = 0
    /\ annotation_id = 0
    /\ class_map = EmptyDict
    /\ coco_dict = EmptyCoco
    /\ pair_idx = 1
    /\ gdf = <<>>
    /\ tif = [width |-> 0, height |-> 0, count |-> 0, res |-> 1]
    /\ j = 0
    /\ i = 0
    /\ range_i = 0
    /\ window = NoWindow
    /\ raster = Pixels(0, 0, 1)
    /\ tile_files = {}
    /\ coco_json = NoFile

\* Before the crop-extraction cell runs; output_path holds `dirs`.
InitCropWith(dirs) ==
    /\ crop_pc = "running"
    /\ zone_idx = 1
    /\ shape_j = 0
    /\ crop_class_map = EmptyDict
    /\ crop_dirs = dirs
    /\ crop_files = EmptyDict
    /\ printed = <<>>

\* The classifier notebook after from_pretrained: the backbone holds the
\* checkpoint, the classifier is newly initialized to `head`, every parameter
\* requires grad and has none.
InitTrainWith(checkpoint, head, batches, to_none) ==
    /\ train_pc = "freeze"
    /\ pretrained = [name \in ParamNames |->
                        IF name \in DOMAIN checkpoint THEN checkpoint[name] ELSE head[name]]
    /\ parameters = [name \in ParamNames |->
                        IF name \in DOMAIN checkpoint
                        THEN Parameter(checkpoint[name])
                        ELSE Parameter(head[name])]
    /\ optimizer_state = [name \in ParamNames |-> 0]
    /\ set_to_none = to_none
    /\ train_batches = batches[1]
    /\ val_batches = batches[2]
    /\ epoch = 0
    /\ idx = 0

\* No TreeDataset built yet.
InitDataset ==
    /\ dataset_pc = "none"
    /\ dataset_class_map = EmptyDict
    /\ image_files = {}

\* The classifier notebook, not run.
InitTrainIdle ==
    InitTrainWith([name \in { n \in ParamNames : startswith(n, "dinov2") } |-> 0],
                  [name \in { n \in ParamNames : startswith(n, "classifier") } |-> 0],
                  <<0, 0>>, TRUE)

\* The labels -> COCO notebook, run from its first cell.
Init ==
    /\ shapefiles \in [1..NumFiles -> ShapefileSet]
    /\ InitLabelsToCoco
    /\ InitCropWith({})
    /\ InitTrainIdle
    /\ InitDataset

Next ==
    \/ MapShapefile
    \/ MapDump
    \/ ChunkStart
    \/ ChunkOpen
    \/ ChunkOpenRaise
    \/ ChunkTile
    \/ ChunkTileRaise
    \/ ChunkNextRow
    \/ ChunkWriteJson

Spec == Init /\ [][Next]_vars

\* map_labels_to_integers by itself, from its call to its return.
InitLabels ==
    /\ shapefiles \in [1..NumFiles -> LabelShapefileSet]
    /\ InitLabelsToCoco
    /\ InitCropWith({})
    /\ InitTrainIdle
    /\ InitDataset

NextLabels ==
    \/ MapShapefile
    \/ MapDump

SpecLabels == InitLabels /\ [][NextLabels]_vars

\* The crop-extraction notebook, run on an output directory that is empty or
\* already holds a class directory.
InitCrop ==
    /\ shapefiles \in [1..NumFiles -> ShapefileSet]
    /\ InitLabelsToCoco
    /\ \E dirs \in {{}, {PyStr("Acer")}} : InitCropWith(dirs)
    /\ InitTrainIdle
    /\ InitDataset

NextCrop ==
    \/ CropWritten
    \/ CropMaskFails
    \/ CropNextZone

SpecCrop == InitCrop /\ [][NextCrop]_vars

\* The crop-extraction notebook, run on an empty output directory.
SpecCropEmpty == Init /\ [][NextCrop]_vars

\* The classifier notebook, from the cell that builds the model on.
InitTrain ==
    /\ shapefiles = [n \in 1..NumFiles |-> <<>>]
    /\ InitLabelsToCoco
    /\ InitCropWith({})
    /\ \E checkpoint \in [{ n \in ParamNames : startswith(n, "dinov2") } -> ParamValues] :
       \E head \in [{ n \in ParamNames : startswith(n, "classifier") } -> ParamValues] :
       \E batches \in (0..MaxBatches) \X (0..MaxBatches) :
       \E to_none \in BOOLEAN :
           InitTrainWith(checkpoint, head, batches, to_none)
    /\ InitDataset

NextTrain ==
    \/ Freeze
    \/ TrainStart
    \/ TrainBatch
    \/ TrainEpochEnd
    \/ ValBatch
    \/ BatchRaise
    \/ ValEpochEnd

SpecTrain == InitTrain /\ [][NextTrain]_vars

\* The three notebooks on the same shapefiles: the labels are mapped, the
\* crops extracted, in any interleaving, and a TreeDataset is built at any
\* moment of it.
NextDataset ==
    \/ MapShapefile
    \/ MapDump
    \/ CropWritten
    \/ CropMaskFails
    \/ CropNextZone
    \/ TreeDatasetInit

SpecDataset == InitCrop /\ [][NextDataset]_vars

(* ============================== claims =============================== *)

IsPrefix(s, t) == Len(s) <= Len(t) /\ SubSeq(t, 1, Len(s)) = s

\* The distinct labels of the shapefiles.
LabelsFound ==
    UNION { { shapefiles[p][n].Label : n \in 1..Len(shapefiles[p]) } : p \in 1..NumFiles }

(* C1 ------------------------------------------------------------------ *)

\* A step that ran the tile body: only those take a value from range(n_tiles_x).
TileStep == range_i' = range_i + 1

ShapesPassed ==
    UNION { { Shape(z, r) : r \in { q \in 0..(Len(shapefiles[z]) - 1) :
                                      z < zone_idx \/ (z = zone_idx /\ q < shape_j) } } :
            z \in 1..NumFiles }

ShapesPrinted == { printed[n] : n \in 1..Len(printed) }

ShapesCropped == { crop_files[n].v : n \in 1..Len(crop_files) }

\* C2: a polygon whose masking raised is printed and skipped: the step writes
\* no file, leaves class_map and the directories as they are, and goes on to
\* the next polygon with the loop still running; no polygon is printed twice
\* (no retry) or both printed and cropped, and as long as no other exception
\* ends the run every polygon passed, in this zone and the later ones, was
\* either printed or cropped.
C2_MaskFailureSkipsThePolygonOnly ==
    /\ [][Len(printed') > Len(printed) =>
            /\ printed' = Append(printed, Shape(zone_idx, shape_j))
            /\ crop_files' = crop_files
            /\ crop_class_map' = crop_class_map
            /\ crop_dirs' = crop_dirs
            /\ crop_pc' = "running"
            /\ zone_idx' = zone_idx
            /\ shape_j' = shape_j + 1]_vars
    /\ [](/\ Cardinality(ShapesPrinted) = Len(printed)
          /\ ShapesPrinted \cap ShapesCropped = {}
          /\ crop_pc = "running" => ShapesPrinted \cup ShapesCropped = ShapesPassed)

\* C2 witness: the first polygon of zone 1 failed and was printed; the next
\* polygon of zone 1 and a polygon of zone 2 were cropped after it.
C2_LaterShapesCroppedAfterFailure ==
    /\ Len(printed) = 1
    /\ printed[1] = Shape(1, 0)
    /\ Shape(1, 1) \in ShapesCropped
    /\ Shape(2, 0) \in ShapesCropped

(* C3 ------------------------------------------------------------------ *)

\* C3, as stated: in the JSON file written by chunk_raster every annotation's
\* category_id equals, as a JSON value, the id of exactly one entry of the
\* categories list.
C3_CategoryIdIsTheIdOfOneCategory ==
    coco_json.exists =>
        LET categories == coco_json.data.categories
            annotations == coco_json.data.annotations
        IN  \A a \in 1..Len(annotations) :
                Cardinality({ c \in 1..Len(categories) :
                                categories[c].id = annotations[a].category_id }) = 1

(* C4 ------------------------------------------------------------------ *)

\* The image entries of the tiles of the geotiff in progress.
ImagesOfOpenGeotiff ==
    { n \in 1..Len(coco_dict.images) : coco_dict.images[n].file_name[1] = pair_idx }

\* The window transform of the tile an image entry of the open geotiff names.
TransformOf(img) ==
    WindowTransform(tif, Window(img.file_name[3] * tile_width, img.file_name[2] * tile_height,
                                tile_width, tile_height))

AnnotationsOf(img) ==
    LET OfImage(a) == a.image_id = img.id
    IN  SelectSeq(coco_dict.annotations, OfImage)

\* The COCO box of a shape: (x, y) the column and row of its top-left corner
\* (least x, greatest y of a north-up raster), then the extents.
TopLeftBox(shape, tr) ==
    LET top_left == rowcol(tr, shape.minx, shape.maxy)
        bottom_right == rowcol(tr, shape.maxx, shape.miny)
    IN  <<top_left.col, top_left.row,
          bottom_right.col - top_left.col, bottom_right.row - top_left.row>>

\* C4, as stated: the bbox of every annotation is [x, y, w, h] with (x, y)
\* the top-left corner (least column, least row) of the clipped shape's
\* bounding rectangle in tile pixels, and w, h its column and row extents.
C4_BBoxIsTheTopLeftBox ==
    pc = "chunk_tiles" =>
        \A n \in ImagesOfOpenGeotiff :
            LET img == coco_dict.images[n]
                shapes == TileShapes(TransformOf(img))
                annotations == AnnotationsOf(img)
            IN  /\ Len(annotations) = Len(shapes)
                /\ \A m \in 1..Len(shapes) :
                       annotations[m].bbox = TopLeftBox(shapes[m].geometry, TransformOf(img))

(* C5 ------------------------------------------------------------------ *)

C6_LabelColumnHoldsTheIntegers ==
    pc # "map_labels" =>
        \A p \in 1..NumFiles : \A n \in 1..Len(shapefiles[p]) :
            /\ shapefiles[p][n].Label.type = "int"
            /\ shapefiles[p][n].Label \in { label_to_int_map[m].v : m \in 1..Len(label_to_int_map) }

(* C7 ------------------------------------------------------------------ *)

\* The integer a Python int holds.
IntOf(v) == CHOOSE n \in 0..(NumFiles * MaxRows) : PyInt(n) = v

\* Where a label first appears, files in the given order, rows in file order.
FirstAppearance(label) ==
    CHOOSE first \in
            { q \in 1..((NumFiles + 1) * (MaxRows + 1)) :
                \E p \in 1..NumFiles : \E n \in 1..Len(shapefiles[p]) :
                    q = p * (MaxRows + 1) + n /\ shapefiles[p][n].Label = label } :
            \A p \in 1..NumFiles : \A n \in 1..Len(shapefiles[p]) :
                shapefiles[p][n].Label = label => first <= p * (MaxRows + 1) + n

\* C7: once map_labels_to_integers has returned, the n distinct labels hold
\* the integers 0..n-1 (one each, no gap), in the order of their first
\* appearance over the shapefiles, and every row of every saved shapefile has
\* the integer of its label as its class (never null, the same in every file).
C7_LabelsNumberedInOrderOfFirstAppearance ==
    pc # "map_labels" =>
        /\ DictKeys(label_to_int_map) = LabelsFound
        /\ Len(label_to_int_map) = Cardinality(LabelsFound)
        /\ { DictGet(label_to_int_map, label) : label \in LabelsFound }
             = { PyInt(n) : n \in 0..(Cardinality(LabelsFound) - 1) }
        /\ \A a, b \in LabelsFound :
               FirstAppearance(a) < FirstAppearance(b)
                   => IntOf(DictGet(label_to_int_map, a)) < IntOf(DictGet(label_to_int_map, b))
        /\ \A p \in 1..NumFiles : \A n \in 1..Len(shapefiles[p]) :
               shapefiles[p][n].class = DictGet(label_to_int_map, shapefiles[p][n].Label)

\* C7 witness: the function has returned, the second shapefile repeats the
\* first label of the first, and its other label is new.
C7_LabelSharedByTwoShapefiles ==
    /\ pc # "map_labels"
    /\ Len(shapefiles[1]) = 2
    /\ Len(shapefiles[2]) = 2
    /\ shapefiles[1][1].Label # shapefiles[1][2].Label
    /\ shapefiles[2][2].Label = shapefiles[1][1].Label
    /\ shapefiles[2][1].Label \notin { shapefiles[1][1].Label, shapefiles[1][2].Label }

(* C8 ------------------------------------------------------------------ *)

\* C8, as stated: in every kept tile, a shape taken out by the area filter is
\* a piece of a polygon that lies mostly outside the tile, and a polygon that
\* lies entirely inside the tile has an annotation for it.
C8_AreaFilterKeepsPolygonsInsideTheTile ==
    pc = "chunk_tiles" =>
        \A n \in ImagesOfOpenGeotiff : \A r \in 1..Len(gdf) :
            LET img == coco_dict.images[n]
                tile == TileBox(TransformOf(img))
                polygon == gdf[r].geometry
                piece == Intersection(polygon, tile)
                annotated ==
                    \E a \in 1..Len(coco_dict.annotations) :
                        /\ coco_dict.annotations[a].image_id = img.id
                        /\ coco_dict.annotations[a].category_id = gdf[r].class
                        /\ coco_dict.annotations[a].area = Area(piece)
                        /\ coco_dict.annotations[a].bbox = BBox(piece, TransformOf(img))
            IN  /\ piece = polygon => annotated
                /\ IsPolygon(piece) /\ ~annotated => 2 * Area(piece) < Area(polygon)

(* C9 ------------------------------------------------------------------ *)

\* The image entries of the geotiffs that are finished.
FinishedImages ==
    LET Finished(img) == img.file_name[1] < pair_idx
    IN  SelectSeq(coco_dict.images, Finished)

FinishedAnnotations ==
    LET Finished(a) == \E n \in 1..Len(FinishedImages) : FinishedImages[n].id = a.image_id
    IN  SelectSeq(coco_dict.annotations, Finished)

C10_ImageIdsCountTheKeptTiles ==
    /\ \A n \in 1..Len(coco_dict.images) : coco_dict.images[n].id = n - 1
    /\ pc # "raised" => tile_id = Len(coco_dict.images)

\* C10 witness: in the second geotiff, right after a dropped tile, with kept
\* tiles of both geotiffs in the list.
C10_KeptTilesOfTwoGeotiffsAroundADrop ==
    /\ pc = "chunk_tiles"
    /\ pair_idx = 2
    /\ range_i > 0
    /\ TileName(pair_idx, j, range_i - 1) \notin tile_files
    /\ \E n \in 1..Len(coco_dict.images) : coco_dict.images[n].file_name[1] = 1
    /\ \E n \in 1..Len(coco_dict.images) : coco_dict.images[n].file_name[1] = 2

(* C11 ----------------------------------------------------------------- *)

\* C11: through any sequence of training and validation batches every
\* parameter whose name starts with 'dinov2' holds the value from_pretrained
\* gave it; a step that changes a parameter changes a classifier parameter,
\* is a training batch, and is a step of the optimizer on that parameter.
C11_OnlyTheClassifierIsTrained ==
    /\ [](\A name \in ParamNames :
              startswith(name, "dinov2") => parameters[name].data = pretrained[name])
    /\ [][\A name \in ParamNames :
              parameters'[name].data # parameters[name].data =>
                  /\ startswith(name, "classifier")
                  /\ train_pc = "train"
                  /\ idx' = idx + 1
                  /\ optimizer_state'[name] = optimizer_state[name] + 1]_vars

\* C11 witness: past the training and validation batches of the first epoch,
\* the optimizer has stepped the classifier, whose weight is no longer the
\* one it was initialized with, and has no state for the backbone.
C11_ClassifierTrainedBackboneKept ==
    /\ epoch >= 1
    /\ val_batches >= 1
    /\ optimizer_state[<<"classifier", "weight">>] >= 1
    /\ parameters[<<"classifier", "weight">>].data # pretrained[<<"classifier", "weight">>]
    /\ \A name \in ParamNames : startswith(name, "dinov2") => optimizer_state[name] = 0

(* C12 ----------------------------------------------------------------- *)

\* The class directories of the items of a built dataset.
DatasetDirs == { item.path.dir : item \in image_files }

\* C12: in a built TreeDataset, self.class_map is the label-to-integer map of
\* map_labels_to_integers, item for item; the target returned for a crop of
\* class directory L is the Python int assigned to label L, it lies in
\* 0..(number of classes - 1), and two crops have the same target exactly
\* when they are in the same class directory.
C12_TargetIsTheIntegerOfTheClassDirectory ==
    dataset_pc = "built" =>
        /\ dataset_class_map = label_to_int_map
        /\ \A item \in image_files :
               /\ item.path.dir \in LabelsFound
               /\ getitem(item) = DictGet(label_to_int_map, item.path.dir)
               /\ getitem(item) \in { PyInt(n) : n \in 0..(Len(classes_json.data) - 1) }
        /\ \A a, b \in image_files :
               (getitem(a) = getitem(b)) <=> (a.path.dir = b.path.dir)

\* C12 witness: a built dataset with crops of two class directories, one of
\* them holding crops of two zones.
C12_DatasetOverTwoClassesAndTwoZones ==
    /\ dataset_pc = "built"
    /\ Cardinality(DatasetDirs) >= 2
    /\ \E a, b \in image_files : a.path.dir = b.path.dir /\ a.path.zone # b.path.zone

(* C13 ----------------------------------------------------------------- *)

\* The position in images of the entry an annotation names, 0 if there is none.
ImageIndex(images, image_id) ==
    IF \E n \in 1..Len(images) : images[n].id = image_id
    THEN CHOOSE n \in 1..Len(images) : images[n].id = image_id
    ELSE 0

\* C13: in coco_dict the annotation ids are 0, 1, ..., m-1 in list order,
\* over all tiles and geotiffs; every annotation names one image entry of the
\* list, later annotations never name earlier images, and the annotations a
\* step appends all name the image entry that same step appended before
\* them; between tiles annotation_id is the number of annotations.
C13_AnnotationIdsAndImageIdsInOrder ==
    /\ [](LET images == coco_dict.images
              annotations == coco_dict.annotations
          IN  /\ \A a \in 1..Len(annotations) :
                     /\ annotations[a].id = a - 1
                     /\ Cardinality({ n \in 1..Len(images) :
                                        images[n].id = annotations[a].image_id }) = 1
              /\ \A a, b \in 1..Len(annotations) :
                     a < b => ImageIndex(images, annotations[a].image_id)
                                <= ImageIndex(images, annotations[b].image_id)
              /\ pc # "raised" => annotation_id = Len(annotations))
    /\ [][/\ IsPrefix(coco_dict.annotations, coco_dict'.annotations)
          /\ \A a \in (Len(coco_dict.annotations) + 1)..Len(coco_dict'.annotations) :
                 /\ Len(coco_dict'.images) = Len(coco_dict.images) + 1
                 /\ coco_dict'.annotations[a].image_id
                      = coco_dict'.images[Len(coco_dict'.images)].id]_vars

\* C13 witness: annotations of tiles of both geotiffs, three or more in all,
\* one tile holding two of them.
C13_AnnotationsOverTilesOfTwoGeotiffs ==
    /\ Len(coco_dict.annotations) >= 3
    /\ \E a, b \in 1..Len(coco_dict.annotations) :
           /\ a # b
           /\ coco_dict.annotations[a].image_id = coco_dict.annotations[b].image_id
    /\ \E a, b \in 1..Len(coco_dict.annotations) :
           LET image_a == coco_dict.images[ImageIndex(coco_dict.images,
                                                      coco_dict.annotations[a].image_id)]
               image_b == coco_dict.images[ImageIndex(coco_dict.images,
                                                      coco_dict.annotations[b].image_id)]
           IN  image_a.file_name[1] = 1 /\ image_b.file_name[1] = 2

(* C14 ----------------------------------------------------------------- *)

\* The part of polygon r of the open shapefile inside the tile of an image entry.
Piece(r, img) == Intersection(gdf[r].geometry, TileBox(TransformOf(img)))

\* The polygons of the open shapefile whose part inside the tile has area 2.0
\* or more, in file order.
Qualifying(img) ==
    LET Qualifies(r) == IsPolygon(Piece(r, img)) /\ Area(Piece(r, img)) >= 2
    IN  SelectSeq([r \in 1..Len(gdf) |-> r], Qualifies)

C15_BBoxInsideTheTile ==
    \A a \in 1..Len(coco_dict.annotations) :
        LET bbox == coco_dict.annotations[a].bbox
        IN  /\ bbox[1] >= 0 /\ bbox[2] >= 0 /\ bbox[3] >= 0 /\ bbox[4] >= 0
            /\ bbox[1] + bbox[3] <= tile_width
            /\ bbox[2] + bbox[4] <= tile_height

(* C16 ----------------------------------------------------------------- *)

\* C16: a tile the zero check drops changes nothing but the loop's own
\* variables: no tile file is written, coco_dict keeps its image and
\* annotation entries, tile_id and annotation_id keep their values, and the
\* JSON file is as it was.
C16_DroppedTileChangesNothing ==
    [][TileStep /\ MostlyZero(raster', tif.count) =>
          /\ tile_files' = tile_files
          /\ coco_dict' = coco_dict
          /\ tile_id' = tile_id
          /\ annotation_id' = annotation_id
          /\ coco_json' = coco_json]_vars

\* C16 witness: a tile has just been dropped, after a tile with annotations
\* was kept.
C16_TileDroppedAfterAnAnnotatedTile ==
    /\ pc = "chunk_tiles"
    /\ range_i > 0
    /\ window = Window((range_i - 1) * tile_width, j * tile_height, tile_width, tile_height)
    /\ MostlyZero(raster, tif.count)
    /\ TileName(pair_idx, j, range_i - 1) \notin tile_files
    /\ tile_id >= 1
    /\ annotation_id >= 1

(* C17 ----------------------------------------------------------------- *)

\* A step that reads a window: within the rows of a geotiff, neither the row
\* nor the pair moves on.
ReadStep == pc = "chunk_tiles" /\ j' = j /\ pair_idx' = pair_idx /\ vars' # vars

\* C17: every read is of the window at offset (i*1024, j*1024) for the next
\* value i of range(width // 1024), whatever the inner loop left in the
\* variable i, with j < height // 1024, and the window lies inside the
\* raster; a row ends only once all its width // 1024 windows were read, the
\* next row is j + 1 from column 0, a geotiff ends only after row
\* height // 1024 - 1, and it starts at row 0, column 0: the windows are read
\* once each, in row-major order, and none reaches into the strips left over.
C17_WindowsReadOnceInRowMajorOrder ==
    [][/\ ReadStep =>
              /\ j < tif.height \div 1024
              /\ range_i < tif.width \div 1024
              /\ window' = Window(range_i * 1024, j * 1024, 1024, 1024)
              /\ window'.col_off + window'.width <= tif.width
              /\ window'.row_off + window'.height <= tif.height
              /\ range_i' = range_i + 1
       /\ pc = "chunk_tiles" /\ j' # j =>
              /\ range_i = tif.width \div 1024
              /\ j < tif.height \div 1024
              /\ j' = j + 1
              /\ range_i' = 0
       /\ pc = "chunk_tiles" /\ pair_idx' # pair_idx => j = tif.height \div 1024
       /\ pc = "chunk_open" /\ pc' = "chunk_tiles" => j' = 0 /\ range_i' = 0
       /\ pc = "chunk_tiles" => tif' = tif]_vars

\* C17 witness: the second window of a row has been read after the inner
\* loop went over three polygons in the first (leaving i = 2, the number of
\* columns).
C17_SecondColumnReadAfterThreePolygons ==
    /\ pc = "chunk_tiles"
    /\ j = 0
    /\ range_i = 2
    /\ window = Window(1024, 0, 1024, 1024)
    /\ \E n \in ImagesOfOpenGeotiff :
           /\ coco_dict.images[n].file_name = TileName(pair_idx, 0, 0)
           /\ Len(AnnotationsOf(coco_dict.images[n])) >= 3

(* C18 ----------------------------------------------------------------- *)

\* The counters in the file names of a class directory, in the order the
\* crops were written.
CountersOf(class_label) ==
    LET InClass(item) == item.k.dir = class_label
        written == SelectSeq(crop_files, InClass)
    IN  [n \in 1..Len(written) |-> written[n].k.n]

\* The label of a polygon, named as the loop names it.
LabelOf(shape) == shapefiles[shape.zone][shape.j + 1].Label

\* C18: from an empty output directory the run never raises on its class
\* directories; every polygon passed whose masking did not fail has a crop
\* file of its own (no path was written twice) under the directory of its
\* label; in every class directory the counters of the file names are
\* 1, 2, ..., n in the order written, over all zones, n being what class_map
\* holds for the class; and a polygon whose masking failed leaves class_map
\* as it is.
C18_CropPathsAreUnique ==
    /\ [](/\ crop_pc = "running"
          /\ ShapesPrinted \cup ShapesCropped = ShapesPassed
          /\ Cardinality(ShapesCropped) = Len(crop_files)
          /\ Cardinality(DictKeys(crop_files)) = Len(crop_files)
          /\ \A n \in 1..Len(crop_files) : crop_files[n].k.dir = LabelOf(crop_files[n].v)
          /\ DictKeys(crop_class_map) = crop_dirs
          /\ \A class_label \in crop_dirs :
                 /\ CountersOf(class_label)
                      = [n \in 1..DictGet(crop_class_map, class_label) |-> n]
                 /\ DictGet(crop_class_map, class_label) >= 1)
    /\ [][Len(printed') > Len(printed) =>
              crop_class_map' = crop_class_map /\ crop_files' = crop_files]_vars

\* C18 witness: a class directory holds crop 1 of zone 1 and crop 2 of zone
\* 2, and between them the masking of a polygon of that class failed.
C18_CounterRunsOverZonesPastAFailure ==
    \E n, m \in 1..Len(crop_files) : \E p \in 1..Len(printed) :
        /\ crop_files[n].k.dir = crop_files[m].k.dir
        /\ crop_files[n].k.zone = 1 /\ crop_files[n].k.n = 1
        /\ crop_files[m].k.zone = 2 /\ crop_files[m].k.n = 2
        /\ LabelOf(printed[p]) = crop_files[n].k.dir
        /\ printed[p].zone = 1
        /\ printed[p].j > crop_files[n].v.j

====
